---- MODULE Spec2Model ----
(***************************************************************************)
(* The release-artifact publisher of .github/scripts/upload_to_r2.py: one  *)
(* invocation validates its environment and input file, hashes the file,   *)
(* uploads it under a versioned and a latest key, and merges its entry     *)
(* into the shared manifest metadata/latest.json of the object store.      *)
(***************************************************************************)
EXTENDS Integers, Sequences, FiniteSets, TLC

(* Bounds of the model. *)
MaxTime == 1
MaxRuns == 2

(* The slots in which invocations (processes running main) execute. *)
Procs == {1, 2}

(* Python's None, where a str is expected. *)
None == "<None>"

(* ------------------------------ strings ------------------------------ *)

UpperCase == "ABCDEFGHIJKLMNOPQRSTUVWXYZ"
LowerCase == "abcdefghijklmnopqrstuvwxyz"

Char(s, i) == SubSeq(s, i, i)

LowerChar(c) ==
    IF \E i \in 1..26 : Char(UpperCase, i) = c
    THEN Char(LowerCase, CHOOSE i \in 1..26 : Char(UpperCase, i) = c)
    ELSE c

(* str.lower() *)
RECURSIVE lower(_)
lower(s) ==
    IF s = "" THEN "" ELSE LowerChar(Char(s, 1)) \o lower(SubSeq(s, 2, Len(s)))

(* str.rfind(c), 1-based; 0 when c does not occur. *)
RFind(s, c) ==
    LET I == {i \in 1..Len(s) : Char(s, i) = c}
    IN  IF I = {} THEN 0 ELSE CHOOSE i \in I : \A j \in I : j <= i

(* `sub in s` on str. *)
Contains(sub, s) ==
    \E i \in 1..(Len(s) - Len(sub) + 1) : SubSeq(s, i, i + Len(sub) - 1) = sub

(* Path(p).name: the final path component. *)
PathName(p) == SubSeq(p, RFind(p, "/") + 1, Len(p))

(* Path(p).suffix: from the last dot of the name, unless the name starts   *)
(* or ends with it.                                                        *)
PathSuffix(p) ==
    LET name == PathName(p)
        i == RFind(name, ".")
    IN  IF 1 < i /\ i < Len(name) THEN SubSeq(name, i, Len(name)) ELSE ""

(* str(b) of a bool. *)
PyStr(b) == IF b THEN "True" ELSE "False"

(* datetime.utcnow().isoformat() + 'Z', for the clock reading t. *)
IsoZ(t) == ToString(t) \o "Z"

(* ------------------------------- dicts ------------------------------- *)

(* d[k] = v on a dict. *)
Assign(d, k, v) == [x \in DOMAIN d \cup {k} |-> IF x = k THEN v ELSE d[x]]

EmptyDict == <<>>

(* JSON values as json.loads returns them: an object (dict) or a value of  *)
(* another type (list, str, number, null), on which a str subscript raises *)
(* TypeError.                                                              *)
JObj(m) == [type |-> "object", members |-> m]
JArr == [type |-> "array", members |-> EmptyDict]

IsDict(v) == v.type = "object"

(* A parsed manifest on which lines 208-224 can work: a dict whose         *)
(* "downloads" is a dict.                                                  *)
ManifestShaped(doc) ==
    /\ IsDict(doc)
    /\ "downloads" \in DOMAIN doc.members
    /\ IsDict(doc.members["downloads"])

Downloads(doc) == doc.members["downloads"].members

(* -------------------------- calculate_sha256 ------------------------- *)

ChunkSize == 4096

(* iter(lambda: f.read(4096), b""): the blocks read until the empty read. *)
RECURSIVE ReadBlocks(_)
ReadBlocks(bytes) ==
    IF bytes = <<>> THEN <<>>
    ELSE LET n == IF Len(bytes) < ChunkSize THEN Len(bytes) ELSE ChunkSize
         IN  <<SubSeq(bytes, 1, n)>> \o ReadBlocks(SubSeq(bytes, n + 1, Len(bytes)))

(* sha256_hash.update over the blocks: the digest depends on the bytes fed *)
(* in order and on nothing else.                                           *)
RECURSIVE Sha256Update(_, _)
Sha256Update(state, blocks) ==
    IF blocks = <<>> THEN state
    ELSE Sha256Update(state \o Head(blocks), Tail(blocks))

(* hexdigest(): a string that is different for different byte streams.     *)
RECURSIVE HexDigest(_)
HexDigest(state) ==
    IF state = <<>> THEN ""
    ELSE ToString(Head(state)) \o "." \o HexDigest(Tail(state))

calculate_sha256(bytes) == "sha256:" \o HexDigest(Sha256Update(<<>>, ReadBlocks(bytes)))

(* -------------------------- get_content_type ------------------------- *)

content_types ==
    (".dmg" :> "application/x-apple-diskimage") @@
    (".exe" :> "application/x-msdownload") @@
    (".msi" :> "application/x-msi") @@
    (".zip" :> "application/zip") @@
    (".tar.gz" :> "application/gzip") @@
    (".json" :> "application/json")

(* Mutant of get_content_type: the suffix is looked up as written. *)
get_content_type_CaseSensitive(filename) ==
    LET ext == PathSuffix(filename)
    IN  IF ext \in DOMAIN content_types THEN content_types[ext]
        ELSE "application/octet-stream"

get_content_type(filename) ==
    LET ext == lower(PathSuffix(filename))
    IN  IF ext \in DOMAIN content_types THEN content_types[ext]
        ELSE "application/octet-stream"

(* ------------------------------ inputs ------------------------------- *)

(* argparse choices of --platform and --arch. *)
Platforms == {"macos", "windows"}
Archs == {"arm64", "x64"}
Versions == {"1.0.0", "1.1.0"}

EnvVars == {"R2_ACCESS_KEY_ID", "R2_SECRET_ACCESS_KEY", "R2_ENDPOINT", "R2_BUCKET"}

GoodEnv ==
    [R2_ACCESS_KEY_ID |-> "key", R2_SECRET_ACCESS_KEY |-> "secret",
     R2_ENDPOINT |-> "https://r2", R2_BUCKET |-> "ami"]

(* os.environ as the process sees it: every variable absent (None from     *)
(* os.environ.get) or set to its value, and the environments with one      *)
(* variable set to the empty string.                                       *)
Environments ==
    {e \in [EnvVars -> {None, "", "key", "secret", "https://r2", "ami"}] :
        /\ \A v \in EnvVars : e[v] \in {None, "", GoodEnv[v]}
        /\ Cardinality({v \in EnvVars : e[v] = ""}) <= 1
        /\ (\E v \in EnvVars : e[v] = "") => \A v \in EnvVars : e[v] # None}

NoEnv == [v \in EnvVars |-> None]

(* The file at --file: absent, present but unreadable, or its bytes.       *)
File(bytes) == [exists |-> TRUE, readable |-> TRUE, bytes |-> bytes]
NoFile == [exists |-> FALSE, readable |-> FALSE, bytes |-> <<>>]
Unreadable == [exists |-> TRUE, readable |-> FALSE, bytes |-> <<7>>]
Contents == {<<1>>, <<2, 3>>}
Disks == {NoFile, Unreadable} \cup {File(b) : b \in Contents}

(* The arguments main passes to upload_to_r2. *)
Requests ==
    [file_path : {"dist/Ami.dmg", "Ami.ZIP"}, version : Versions,
     platform : Platforms, arch : Archs, signed : BOOLEAN,
     notarized : BOOLEAN, commit_sha : {None, "abc123"}]

NoReq ==
    [file_path |-> "", version |-> "", platform |-> "", arch |-> "",
     signed |-> FALSE, notarized |-> FALSE, commit_sha |-> None]

Req(path, version, platform, arch) ==
    [file_path |-> path, version |-> version, platform |-> platform,
     arch |-> arch, signed |-> TRUE, notarized |-> FALSE, commit_sha |-> None]

(* --------------------- upload_to_r2: local values -------------------- *)

(* Mutant of AllSet: only the two keys are checked. *)
AllSet_KeysOnly(e) ==
    \A v \in {"R2_ACCESS_KEY_ID", "R2_SECRET_ACCESS_KEY"} : e[v] # None /\ e[v] # ""

(* all([access_key, secret_key, endpoint, bucket]) *)
AllSet(e) == \A v \in EnvVars : e[v] # None /\ e[v] # ""

platform_arch(r) == r.platform \o "-" \o r.arch

(* The metadata dict attached to both uploads. *)
ObjectMetadata(r, file_hash, t) ==
    LET m0 == ("version" :> r.version) @@ ("platform" :> r.platform) @@
              ("arch" :> r.arch) @@ ("build-date" :> IsoZ(t)) @@
              ("sha256" :> file_hash) @@ ("signed" :> lower(PyStr(r.signed)))
        m1 == IF r.platform = "macos"
              THEN Assign(m0, "notarized", lower(PyStr(r.notarized))) ELSE m0
    IN  IF r.commit_sha # None /\ r.commit_sha # ""
        THEN Assign(m1, "commit-sha", r.commit_sha) ELSE m1

(* Mutant of versioned_key: the version is left out of the key. *)
versioned_key_Unversioned(r) ==
    "releases/" \o platform_arch(r) \o "/" \o PathName(r.file_path)

versioned_key(r) ==
    "releases/v" \o r.version \o "/" \o platform_arch(r) \o "/" \o PathName(r.file_path)

latest_filename(r) == "Ami-latest-" \o platform_arch(r) \o PathSuffix(r.file_path)

latest_key(r) == "releases/latest/" \o platform_arch(r) \o "/" \o latest_filename(r)

metadata_key == "metadata/latest.json"

(* ---------------------------- object store --------------------------- *)

(* What upload_file stores under a key. *)
ArtifactObject(bytes, content_type, metadata) ==
    [Body |-> [bytes |-> bytes], ContentType |-> content_type, Metadata |-> metadata]

(* json.dumps(metadata, indent=2).encode('utf-8') and its inverse          *)
(* json.loads(body.decode('utf-8')), which raises on a body that is not    *)
(* JSON text.                                                              *)
JsonDumps(v) == [json |-> v]
NoDoc == [type |-> "unset", members |-> EmptyDict]
JsonLoads(body) ==
    IF "json" \in DOMAIN body THEN [raised |-> FALSE, value |-> body.json]
    ELSE [raised |-> TRUE, value |-> NoDoc]

(* What put_object stores under metadata/latest.json. *)
ManifestObject(doc) ==
    [Body |-> JsonDumps(doc), ContentType |-> "application/json", Metadata |-> EmptyDict]

(* ------------------------ update_metadata_json ----------------------- *)

(* The dict built when the manifest cannot be read. *)
FreshShell(version, t) ==
    JObj(("version" :> version) @@ ("release_date" :> IsoZ(t)) @@
         ("downloads" :> JObj(EmptyDict)))

(* Mutant of download_info: notarized is recorded for signed builds only. *)
download_info_SignedOnly(r, endpoint, bucket, file_size, file_hash) ==
    LET info == ("url" :> endpoint \o "/" \o bucket \o "/" \o latest_key(r)) @@
                ("size" :> file_size) @@ ("sha256" :> file_hash) @@
                ("signed" :> r.signed)
    IN  JObj(IF Contains("macos", platform_arch(r)) /\ r.signed
             THEN Assign(info, "notarized", r.notarized) ELSE info)

(* Mutant of download_info: the size is recorded in KiB. *)
download_info_KiB(r, endpoint, bucket, file_size, file_hash) ==
    LET info == ("url" :> endpoint \o "/" \o bucket \o "/" \o latest_key(r)) @@
                ("size" :> file_size \div 1024) @@ ("sha256" :> file_hash) @@
                ("signed" :> r.signed)
    IN  JObj(IF Contains("macos", platform_arch(r))
             THEN Assign(info, "notarized", r.notarized) ELSE info)

download_info(r, endpoint, bucket, file_size, file_hash) ==
    LET info == ("url" :> endpoint \o "/" \o bucket \o "/" \o latest_key(r)) @@
                ("size" :> file_size) @@ ("sha256" :> file_hash) @@
                ("signed" :> r.signed)
    IN  JObj(IF Contains("macos", platform_arch(r))
             THEN Assign(info, "notarized", r.notarized) ELSE info)

Raise(e) == [raised |-> e, value |-> NoDoc]
Return(v) == [raised |-> "", value |-> v]

(* Mutant of MergeManifest: the downloads map is rebuilt from this run's   *)
(* entry alone.                                                            *)
MergeManifest_Replacing(metadata, version, pa, t, info) ==
    IF ~IsDict(metadata) THEN Raise("TypeError")
    ELSE LET m1 == Assign(metadata.members, "version", version)
             m2 == Assign(m1, "release_date", IsoZ(t))
         IN  IF "downloads" \notin DOMAIN m2 THEN Raise("KeyError")
             ELSE IF ~IsDict(m2["downloads"]) THEN Raise("TypeError")
             ELSE Return(JObj(Assign(m2, "downloads", JObj(Assign(EmptyDict, pa, info)))))

(* Mutant of MergeManifest: a version already in the manifest is kept.     *)
MergeManifest_KeepsVersion(metadata, version, pa, t, info) ==
    IF ~IsDict(metadata) THEN Raise("TypeError")
    ELSE LET m1 == IF "version" \in DOMAIN metadata.members THEN metadata.members
                   ELSE Assign(metadata.members, "version", version)
             m2 == Assign(m1, "release_date", IsoZ(t))
         IN  IF "downloads" \notin DOMAIN m2 THEN Raise("KeyError")
             ELSE IF ~IsDict(m2["downloads"]) THEN Raise("TypeError")
             ELSE Return(JObj(Assign(m2, "downloads",
                      JObj(Assign(m2["downloads"].members, pa, info)))))

(* Mutant of MergeManifest: an entry already under the identifier is kept  *)
(* under "<identifier>-previous".                                          *)
MergeManifest_Archiving(metadata, version, pa, t, info) ==
    IF ~IsDict(metadata) THEN Raise("TypeError")
    ELSE LET m1 == Assign(metadata.members, "version", version)
             m2 == Assign(m1, "release_date", IsoZ(t))
         IN  IF "downloads" \notin DOMAIN m2 THEN Raise("KeyError")
             ELSE IF ~IsDict(m2["downloads"]) THEN Raise("TypeError")
             ELSE LET old == m2["downloads"].members
                      kept == IF pa \in DOMAIN old
                              THEN Assign(old, pa \o "-previous", old[pa]) ELSE old
                  IN  Return(JObj(Assign(m2, "downloads", JObj(Assign(kept, pa, info)))))

(* Lines 208-224 on the dict `metadata`: a str subscript on a value that   *)
(* is no dict raises TypeError, a missing "downloads" raises KeyError.     *)
MergeManifest(metadata, version, pa, t, info) ==
    IF ~IsDict(metadata) THEN Raise("TypeError")
    ELSE LET m1 == Assign(metadata.members, "version", version)
             m2 == Assign(m1, "release_date", IsoZ(t))
         IN  IF "downloads" \notin DOMAIN m2 THEN Raise("KeyError")
             ELSE IF ~IsDict(m2["downloads"]) THEN Raise("TypeError")
             ELSE Return(JObj(Assign(m2, "downloads",
                      JObj(Assign(m2["downloads"].members, pa, info)))))

(* ------------------------------- state ------------------------------- *)

VARIABLES
    store,      \* the bucket: object key -> stored object
    now,        \* the UTC clock that datetime.utcnow() reads
    pc,         \* per invocation: the step of upload_to_r2 it is at
    req,        \* per invocation: the arguments of upload_to_r2
    environ,    \* per invocation: os.environ of the process
    disk,       \* per invocation: the file at file_path
    client,     \* per invocation: whether boto3.client(...) was built
    metadata,   \* per invocation: upload_to_r2's metadata dict
    manifest,   \* per invocation: update_metadata_json's dict after line 224
    calls,      \* per invocation: the object-store calls made, in order
    result,     \* per invocation: what upload_to_r2 returned
    exc,        \* per invocation: the exception that ended it, if any
    prior,      \* per invocation: how the manifest fetch ended and the dict it left
    found,      \* per invocation: the bucket as it was when the invocation started
    stale,      \* per invocation: another one wrote the manifest since its fetch
    lastPut,    \* the invocation and arguments of the last manifest write
    published,  \* the identifiers whose manifest write succeeded
    fetchErr,   \* some manifest fetch raised an error other than NoSuchKey
    overlapped, \* some invocation started while another was running
    runs,       \* invocations started so far
    prev        \* per slot: the invocation that ran in it before this one

locals == <<pc, req, environ, disk, client, metadata, manifest, calls, result, exc, prior>>
history == <<found, stale, lastPut, published, fetchErr, overlapped, runs, prev>>
vars == <<store, now, locals, history>>

Running == {"ValidateEnv", "ValidateFile", "Hash", "UploadVersioned",
            "UploadLatest", "UpdateManifest", "PutManifest"}
Ended == {"Done", "Failed"}

NoPrior == [outcome |-> "none", base |-> NoDoc]
NoPut == [by |-> 0, req |-> NoReq]
NoPrev == [req |-> NoReq, disk |-> NoFile, calls |-> <<>>, outcome |-> "none",
           result |-> "none"]

(* sys.exit(0 if success else 1); an exception that leaves main exits 1.   *)
ExitCode(i) == IF result[i] = "True" THEN 0 ELSE 1

file_size(i) == Len(disk[i].bytes)
file_hash(i) == calculate_sha256(disk[i].bytes)
filename(i) == PathName(req[i].file_path)

(* ---------------------------- initial store -------------------------- *)

EmptyStore == <<>>

(* The bucket after one clean publish of r with the given bytes at time 0. *)
StoreAfter(r, bytes) ==
    LET h == calculate_sha256(bytes)
        obj == ArtifactObject(bytes, get_content_type(PathName(r.file_path)),
                              ObjectMetadata(r, h, 0))
        doc == MergeManifest(FreshShell(r.version, 0), r.version, platform_arch(r), 0,
                   download_info(r, GoodEnv.R2_ENDPOINT, GoodEnv.R2_BUCKET,
                                 Len(bytes), h)).value
    IN  (versioned_key(r) :> obj) @@ (latest_key(r) :> obj) @@
        (metadata_key :> ManifestObject(doc))

PriorRequest == Req("Ami.ZIP", "1.1.0", "windows", "x64")
PriorStore == StoreAfter(PriorRequest, <<1>>)
PriorDoc == PriorStore[metadata_key].Body.json

(* Bodies found at metadata/latest.json that this program did not write:   *)
(* bytes that are no JSON text, JSON that is no object, an object without  *)
(* "downloads", an object whose "downloads" is no object, and a manifest   *)
(* carrying one more top-level member.                                     *)
ForeignBodies ==
    { [bytes |-> <<0>>],
      JsonDumps(JArr),
      JsonDumps(JObj(("version" :> "0.9.0"))),
      JsonDumps(JObj(Assign(PriorDoc.members, "downloads", JArr))),
      JsonDumps(JObj(Assign(PriorDoc.members, "channel", "beta"))) }

(* The bucket of the earlier publish with body b at metadata/latest.json.   *)
WithManifestBody(b) ==
    Assign(PriorStore, metadata_key,
           [Body |-> b, ContentType |-> "application/json", Metadata |-> EmptyDict])

InitialStores ==
    {EmptyStore, PriorStore} \cup {WithManifestBody(b) : b \in ForeignBodies}

InitWith(stores) ==
    /\ store \in stores
    /\ now = 0
    /\ pc = [i \in Procs |-> "Start"]
    /\ req = [i \in Procs |-> NoReq]
    /\ environ = [i \in Procs |-> NoEnv]
    /\ disk = [i \in Procs |-> NoFile]
    /\ client = [i \in Procs |-> FALSE]
    /\ metadata = [i \in Procs |-> EmptyDict]
    /\ manifest = [i \in Procs |-> NoDoc]
    /\ calls = [i \in Procs |-> <<>>]
    /\ result = [i \in Procs |-> "running"]
    /\ exc = [i \in Procs |-> ""]
    /\ prior = [i \in Procs |-> NoPrior]
    /\ found = [i \in Procs |-> EmptyStore]
    /\ stale = [i \in Procs |-> FALSE]
    /\ lastPut = NoPut
    /\ published = {}
    /\ fetchErr = FALSE
    /\ overlapped = FALSE
    /\ runs = 0
    /\ prev = [i \in Procs |-> NoPrev]

Init == InitWith(InitialStores)

(* ------------------------------ actions ------------------------------ *)

Set(f, i, v) == [f EXCEPT ![i] = v]

(* upload_to_r2 returns False (res = "False") or lets an exception leave   *)
(* it (res = "raised"); e names the exception.                             *)
Fail(i, e, res) ==
    /\ pc' = Set(pc, i, "Failed")
    /\ result' = Set(result, i, res)
    /\ exc' = Set(exc, i, e)

Goto(i, step) ==
    /\ pc' = Set(pc, i, step)
    /\ UNCHANGED <<result, exc>>

(* One object-store call of invocation i, appended to its call record. *)
Call(i, op, key, ok) == calls' = Set(calls, i, Append(calls[i], [op |-> op, key |-> key, ok |-> ok]))

(* main: a process starts with its arguments, environment and disk. With   *)
(* reuse, a slot whose invocation has ended runs the next one.             *)
Start(i, U, reuse) ==
    /\ pc[i] \in (IF reuse THEN {"Start"} \cup Ended ELSE {"Start"})
    /\ reuse => runs < MaxRuns
    /\ \E r \in U.reqs, e \in U.envs, d \in U.disks :
         /\ req' = Set(req, i, r)
         /\ environ' = Set(environ, i, e)
         /\ disk' = Set(disk, i, d)
    /\ pc' = Set(pc, i, "ValidateEnv")
    /\ client' = Set(client, i, FALSE)
    /\ metadata' = Set(metadata, i, EmptyDict)
    /\ manifest' = Set(manifest, i, NoDoc)
    /\ calls' = Set(calls, i, <<>>)
    /\ result' = Set(result, i, "running")
    /\ exc' = Set(exc, i, "")
    /\ prior' = Set(prior, i, NoPrior)
    /\ found' = Set(found, i, store)
    /\ stale' = Set(stale, i, FALSE)
    /\ overlapped' = (overlapped \/ \E j \in Procs \ {i} : pc[j] \in Running)
    /\ runs' = runs + 1
    /\ prev' = Set(prev, i, IF pc[i] \in Ended
                             THEN [req |-> req[i], disk |-> disk[i], calls |-> calls[i],
                                   outcome |-> prior[i].outcome, result |-> result[i]]
                             ELSE NoPrev)
    /\ UNCHANGED <<store, now, lastPut, published, fetchErr>>

(* Lines 63-72: the four credentials must all be set. *)
ValidateEnv(i) ==
    /\ pc[i] = "ValidateEnv"
    /\ IF AllSet(environ[i]) THEN Goto(i, "ValidateFile") ELSE Fail(i, "", "False")
    /\ UNCHANGED <<store, now, req, environ, disk, client, metadata, manifest, calls,
                   prior, history>>

(* Mutant of ValidateFile: the existence check is dropped. *)
ValidateFile_Unchecked(i) ==
    /\ pc[i] = "ValidateFile"
    /\ Goto(i, "Hash")
    /\ UNCHANGED <<store, now, req, environ, disk, client, metadata, manifest, calls,
                   prior, history>>

(* Lines 74-78: the file must exist. *)
ValidateFile(i) ==
    /\ pc[i] = "ValidateFile"
    /\ IF disk[i].exists THEN Goto(i, "Hash") ELSE Fail(i, "", "False")
    /\ UNCHANGED <<store, now, req, environ, disk, client, metadata, manifest, calls,
                   prior, history>>

(* Lines 80-127: size and hash of the file, the storage client, the        *)
(* metadata dict with its build date, the content type and the keys. An    *)
(* error reading the file leaves upload_to_r2 as an exception.             *)
GetFileInfo(i) ==
    /\ pc[i] = "Hash"
    /\ IF disk[i].readable
       THEN /\ \E t \in now..MaxTime :
                 /\ now' = t
                 /\ metadata' = Set(metadata, i, ObjectMetadata(req[i], file_hash(i), t))
            /\ client' = Set(client, i, TRUE)
            /\ Goto(i, "UploadVersioned")
       ELSE /\ Fail(i, "OSError", "raised")
            /\ UNCHANGED <<now, client, metadata>>
    /\ UNCHANGED <<store, req, environ, disk, manifest, calls, prior, history>>

(* s3_client.upload_file(file, bucket, key, ExtraArgs): the object is      *)
(* stored, or the call raises and stores nothing.                          *)
upload_file(i, key, ok) ==
    /\ Call(i, "upload_file", key, ok)
    /\ store' = IF ok
                THEN Assign(store, key,
                            ArtifactObject(disk[i].bytes, get_content_type(filename(i)),
                                           metadata[i]))
                ELSE store

(* Mutant of UploadVersioned: a failed upload is only logged. *)
UploadVersioned_Swallowed(i) ==
    /\ pc[i] = "UploadVersioned"
    /\ \E ok \in BOOLEAN : upload_file(i, versioned_key(req[i]), ok)
    /\ Goto(i, "UploadLatest")
    /\ UNCHANGED <<now, req, environ, disk, client, metadata, manifest, prior, history>>

(* Lines 132-143. *)
UploadVersioned(i) ==
    /\ pc[i] = "UploadVersioned"
    /\ \E ok \in BOOLEAN :
         /\ upload_file(i, versioned_key(req[i]), ok)
         /\ IF ok THEN Goto(i, "UploadLatest") ELSE Fail(i, "ClientError", "False")
    /\ UNCHANGED <<now, req, environ, disk, client, metadata, manifest, prior, history>>

(* Mutant of UploadLatest: a failed upload is only logged and the manifest *)
(* update follows.                                                         *)
UploadLatest_Swallowed(i) ==
    /\ pc[i] = "UploadLatest"
    /\ \E ok \in BOOLEAN : upload_file(i, latest_key(req[i]), ok)
    /\ Goto(i, "UpdateManifest")
    /\ UNCHANGED <<now, req, environ, disk, client, metadata, manifest, prior, history>>

(* Mutant of UploadLatest: the second upload goes to the versioned key     *)
(* again.                                                                  *)
UploadLatest_VersionedKeyAgain(i) ==
    /\ pc[i] = "UploadLatest"
    /\ \E ok \in BOOLEAN :
         /\ upload_file(i, versioned_key(req[i]), ok)
         /\ IF ok THEN Goto(i, "UpdateManifest") ELSE Fail(i, "ClientError", "False")
    /\ UNCHANGED <<now, req, environ, disk, client, metadata, manifest, prior, history>>

(* Lines 145-156. *)
UploadLatest(i) ==
    /\ pc[i] = "UploadLatest"
    /\ \E ok \in BOOLEAN :
         /\ upload_file(i, latest_key(req[i]), ok)
         /\ IF ok THEN Goto(i, "UpdateManifest") ELSE Fail(i, "ClientError", "False")
    /\ UNCHANGED <<now, req, environ, disk, client, metadata, manifest, prior, history>>

(* How lines 190-206 end on the bucket as it is: the fetch raises an error *)
(* (failed), the key is absent, the body is no JSON text, or it parses.    *)
FetchOutcome(failed) ==
    IF failed THEN "Error"
    ELSE IF metadata_key \notin DOMAIN store THEN "NoSuchKey"
    ELSE IF JsonLoads(store[metadata_key].Body).raised THEN "Decode"
    ELSE "Ok"

(* The dict `metadata` of update_metadata_json after lines 190-206. *)
FetchedDict(outcome, version, t) ==
    IF outcome = "Ok" THEN JsonLoads(store[metadata_key].Body).value
    ELSE FreshShell(version, t)

(* Lines 187-224 of update_metadata_json: fetch the manifest, fall back to *)
(* a fresh shell, set version and release date and this run's entry. An    *)
(* exception of lines 208-224 is caught by upload_to_r2 (line 174), which  *)
(* returns False.                                                          *)
FetchManifest(i) ==
    /\ pc[i] = "UpdateManifest"
    /\ \E failed \in BOOLEAN, t1 \in now..MaxTime :
         \E t2 \in t1..MaxTime :
           LET outcome == FetchOutcome(failed)
               base == FetchedDict(outcome, req[i].version, t1)
               merged == MergeManifest(base, req[i].version, platform_arch(req[i]), t2,
                             download_info(req[i], environ[i].R2_ENDPOINT,
                                           environ[i].R2_BUCKET, file_size(i),
                                           file_hash(i)))
           IN  /\ Call(i, "get_object", metadata_key, ~failed /\ outcome # "NoSuchKey")
               /\ now' = t2
               /\ prior' = Set(prior, i, [outcome |-> outcome, base |-> base])
               /\ fetchErr' = (fetchErr \/ outcome = "Error")
               /\ IF merged.raised = ""
                  THEN /\ manifest' = Set(manifest, i, merged.value)
                       /\ Goto(i, "PutManifest")
                  ELSE /\ Fail(i, merged.raised, "False")
                       /\ UNCHANGED manifest
    /\ stale' = Set(stale, i, FALSE)
    /\ UNCHANGED <<store, req, environ, disk, client, metadata, found, lastPut,
                   published, overlapped, runs, prev>>

(* Mutant of PutManifest: the write merges this run's entry into the       *)
(* manifest as it is in the bucket at the time of the write.               *)
PutManifest_Merging(i) ==
    /\ pc[i] = "PutManifest"
    /\ \E ok \in BOOLEAN :
         /\ Call(i, "put_object", metadata_key, ok)
         /\ IF ok
            THEN /\ store' = Assign(store, metadata_key, ManifestObject(
                        IF FetchOutcome(FALSE) = "Ok"
                        THEN MergeManifest(FetchedDict("Ok", req[i].version, now),
                                 req[i].version, platform_arch(req[i]), now,
                                 Downloads(manifest[i])[platform_arch(req[i])]).value
                        ELSE manifest[i]))
                 /\ lastPut' = [by |-> i, req |-> req[i]]
                 /\ published' = published \cup {platform_arch(req[i])}
                 /\ stale' = [j \in Procs |->
                                IF j # i /\ pc[j] = "PutManifest" THEN TRUE ELSE stale[j]]
            ELSE UNCHANGED <<store, lastPut, published, stale>>
    /\ pc' = Set(pc, i, "Done")
    /\ result' = Set(result, i, "True")
    /\ UNCHANGED <<now, req, environ, disk, client, metadata, manifest, exc, prior,
                   found, fetchErr, overlapped, runs, prev>>

(* Lines 226-237 and 164-172: write the manifest; an error is a warning.   *)
(* upload_to_r2 returns True either way.                                   *)
PutManifest(i) ==
    /\ pc[i] = "PutManifest"
    /\ \E ok \in BOOLEAN :
         /\ Call(i, "put_object", metadata_key, ok)
         /\ IF ok
            THEN /\ store' = Assign(store, metadata_key, ManifestObject(manifest[i]))
                 /\ lastPut' = [by |-> i, req |-> req[i]]
                 /\ published' = published \cup {platform_arch(req[i])}
                 /\ stale' = [j \in Procs |->
                                IF j # i /\ pc[j] = "PutManifest" THEN TRUE ELSE stale[j]]
            ELSE UNCHANGED <<store, lastPut, published, stale>>
    /\ pc' = Set(pc, i, "Done")
    /\ result' = Set(result, i, "True")
    /\ UNCHANGED <<now, req, environ, disk, client, metadata, manifest, exc, prior,
                   found, fetchErr, overlapped, runs, prev>>

(* The steps of the invocations in slots P, with inputs drawn from U. *)
NextOf(P, U, reuse) ==
    \E i \in P :
        \/ Start(i, U, reuse)
        \/ ValidateEnv(i)
        \/ ValidateFile(i)
        \/ GetFileInfo(i)
        \/ UploadVersioned(i)
        \/ UploadLatest(i)
        \/ FetchManifest(i)
        \/ PutManifest(i)

(* One invocation, with every input. *)
Universe == [reqs |-> Requests, envs |-> Environments, disks |-> Disks]
Next == NextOf({1}, Universe, FALSE)
Spec == Init /\ [][Next]_vars

(* A sequence of invocations, one at a time, each starting when the one    *)
(* before it has ended: the releases of two identifiers, one of them in    *)
(* two versions, with a valid environment and a readable file of either    *)
(* content, on a bucket that is empty or holds an earlier publish, with    *)
(* its manifest intact, unparseable or without "downloads".                *)
SeqRequests ==
    {Req("Ami.ZIP", v, "windows", "x64") : v \in Versions} \cup
    {Req("dist/Ami.dmg", "1.0.0", "macos", "arm64")}
SeqStores ==
    {EmptyStore, PriorStore, WithManifestBody([bytes |-> <<0>>]),
     WithManifestBody(JsonDumps(JObj(("version" :> "0.9.0"))))}
SeqUniverse ==
    [reqs |-> SeqRequests, envs |-> {GoodEnv}, disks |-> {File(b) : b \in Contents}]
NextSeq == NextOf({1}, SeqUniverse, TRUE)
InitSeq == InitWith(SeqStores)
SpecSeq == InitSeq /\ [][NextSeq]_vars

(* Two invocations running concurrently against one bucket. *)
RaceUniverse ==
    [reqs |-> SeqRequests, envs |-> {GoodEnv}, disks |-> {File(<<1>>)}]
NextRace == NextOf(Procs, RaceUniverse, FALSE)
InitRace == InitWith(SeqStores)
SpecRace == InitRace /\ [][NextRace]_vars

(* One invocation over file paths of many names: with and without a       *)
(* directory, extensions in either case, double extensions, names that     *)
(* start or end with a dot, and names without a dot.                       *)
NameDirs == {"", "dist/"}
NameStems == {"", "Ami", "Ami.tar"}
NameExts ==
    {".dmg", ".DMG", ".exe", ".Exe", ".msi", ".MSI", ".zip", ".ZIP", ".json",
     ".JSON", ".gz", ".GZ", ".tar.gz", ".xyz", ".dmg.bak", ".tgz", ".", ""}
FileNames ==
    {n[1] \o n[2] : n \in {x \in NameStems \X NameExts : x[1] # "" \/ Len(x[2]) > 1}}
FilePaths == {d \o n : d \in NameDirs, n \in FileNames}
NameRequests == {Req(p, "1.0.0", "windows", "x64") : p \in FilePaths}
NameUniverse == [reqs |-> NameRequests, envs |-> {GoodEnv}, disks |-> {File(<<1>>)}]
NextNames == NextOf({1}, NameUniverse, FALSE)
InitNames == InitWith({EmptyStore})
SpecNames == InitNames /\ [][NextNames]_vars

(* ------------------------- reading the state ------------------------- *)

Started(i) == pc[i] # "Start"

(* The calls of invocation i on key k with operation op. *)
CallsOn(i, op, k) == {n \in 1..Len(calls[i]) : calls[i][n].op = op /\ calls[i][n].key = k}

UploadedOk(i, k) == \E n \in CallsOn(i, "upload_file", k) : calls[i][n].ok
BothUploaded(i) ==
    UploadedOk(i, versioned_key(req[i])) /\ UploadedOk(i, latest_key(req[i]))

Fetched(i) == prior[i].outcome # "none"
PutTried(i) == CallsOn(i, "put_object", metadata_key) # {}
PutOk(i) == \E n \in CallsOn(i, "put_object", metadata_key) : calls[i][n].ok

(* The manifest now in the bucket parses to a manifest-shaped dict. *)
StoredManifestOk ==
    /\ metadata_key \in DOMAIN store
    /\ ~JsonLoads(store[metadata_key].Body).raised
    /\ ManifestShaped(JsonLoads(store[metadata_key].Body).value)
StoredDoc == JsonLoads(store[metadata_key].Body).value

(* The entry this invocation computes for the manifest. *)
EntryOf(i) ==
    download_info(req[i], environ[i].R2_ENDPOINT, environ[i].R2_BUCKET,
                  file_size(i), file_hash(i))

(* The bucket holds the same object, or none, under k as s does. *)
SameAt(k, s) ==
    /\ (k \in DOMAIN store) = (k \in DOMAIN s)
    /\ k \in DOMAIN store => store[k] = s[k]

(* -------------------------------- C1 --------------------------------- *)

(* C1: once both artifact uploads of an invocation have succeeded, the     *)
(* invocation ends in Done with exit code 0, whatever the manifest fetch   *)
(* returned and however the manifest write ended; it never ends in Failed. *)
C1_ManifestFailureNotFatal ==
    \A i \in Procs :
        (BothUploaded(i) /\ pc[i] \in Ended) =>
            (pc[i] = "Done" /\ result[i] = "True" /\ ExitCode(i) = 0)

(* -------------------------------- C2 --------------------------------- *)

(* The manifest fetch of invocation i found nothing usable: no object, an  *)
(* error, a body that does not parse, or one that parses to something that *)
(* is not manifest-shaped.                                                 *)
PriorUnusable(i) ==
    \/ prior[i].outcome \in {"NoSuchKey", "Error", "Decode"}
    \/ prior[i].outcome = "Ok" /\ ~ManifestShaped(prior[i].base)

(* A fresh shell holding only the data of invocation i. *)
FreshFor(doc, i) ==
    /\ ManifestShaped(doc)
    /\ DOMAIN doc.members = {"version", "release_date", "downloads"}
    /\ doc.members["version"] = req[i].version
    /\ DOMAIN Downloads(doc) = {platform_arch(req[i])}
    /\ Downloads(doc)[platform_arch(req[i])] = EntryOf(i)

(* C2: when the prior manifest is missing, cannot be fetched or is         *)
(* malformed, update_metadata_json does not crash and the manifest it      *)
(* goes on to write is a fresh shell with this invocation's version and a  *)
(* downloads map holding its identifier alone.                             *)
C2_MalformedPriorGivesFreshShell ==
    \A i \in Procs :
        (Fetched(i) /\ PriorUnusable(i)) =>
            /\ pc[i] \in {"PutManifest", "Done"}
            /\ exc[i] = ""
            /\ FreshFor(manifest[i], i)

(* -------------------------------- C4 --------------------------------- *)

Missing(e) == \E v \in EnvVars : e[v] = None

(* C4: an invocation that has passed the environment check with one of the *)
(* four R2_* variables missing has failed (upload_to_r2 returned False,    *)
(* exit code 1), built no storage client, made no object-store call and    *)
(* left the bucket as it found it.                                         *)
C4_MissingEnvFailsWithoutCalls ==
    \A i \in Procs :
        (pc[i] \notin {"Start", "ValidateEnv"} /\ Missing(environ[i])) =>
            /\ pc[i] = "Failed" /\ result[i] = "False" /\ ExitCode(i) = 1
            /\ ~client[i]
            /\ calls[i] = <<>>
            /\ store = found[i]

(* Only R2_BUCKET is missing and the file is there: the environment alone  *)
(* made the invocation fail.                                               *)
C4_Witness ==
    /\ pc[1] = "Failed"
    /\ environ[1] = [GoodEnv EXCEPT !.R2_BUCKET = None]
    /\ disk[1].exists
    /\ metadata_key \in DOMAIN store

(* -------------------------------- C5 --------------------------------- *)

(* C5: an invocation that has passed the file check with no file at        *)
(* file_path has failed (returned False, exit code 1) without hashing      *)
(* (its metadata dict, which holds the hash, was never built), without a   *)
(* storage client and without any object-store call; the bucket is as it   *)
(* found it.                                                               *)
C5_MissingFileFailsWithoutCalls ==
    \A i \in Procs :
        (pc[i] \notin {"Start", "ValidateEnv", "ValidateFile"} /\ ~disk[i].exists) =>
            /\ pc[i] = "Failed" /\ result[i] = "False" /\ ExitCode(i) = 1
            /\ metadata[i] = EmptyDict
            /\ ~client[i]
            /\ calls[i] = <<>>
            /\ store = found[i]

C5_Witness ==
    /\ pc[1] = "Failed"
    /\ AllSet(environ[1])
    /\ ~disk[1].exists
    /\ metadata_key \in DOMAIN store

(* -------------------------------- C6 --------------------------------- *)

UploadFailed(i, k) == \E n \in CallsOn(i, "upload_file", k) : ~calls[i][n].ok
ManifestCalls(i) ==
    CallsOn(i, "get_object", metadata_key) \cup CallsOn(i, "put_object", metadata_key)

(* C6: when the versioned-key upload of an invocation has failed, that     *)
(* call is its only object-store call (no latest-key upload, no manifest   *)
(* read or write); when its latest-key upload has failed, it has made the  *)
(* two uploads and no manifest call. Either way it has failed (returned    *)
(* False, exit code 1) and the manifest object is as the invocation found  *)
(* it.                                                                     *)
C6_UploadFailureIsFatal ==
    \A i \in Procs :
        /\ UploadFailed(i, versioned_key(req[i])) =>
              /\ Len(calls[i]) = 1
              /\ CallsOn(i, "upload_file", latest_key(req[i])) = {}
        /\ UploadFailed(i, latest_key(req[i])) => Len(calls[i]) = 2
        /\ (UploadFailed(i, versioned_key(req[i])) \/ UploadFailed(i, latest_key(req[i]))) =>
              /\ ManifestCalls(i) = {}
              /\ pc[i] = "Failed" /\ result[i] = "False" /\ ExitCode(i) = 1
              /\ SameAt(metadata_key, found[i])

(* The latest-key upload failed after the versioned one succeeded, with a  *)
(* manifest in the bucket.                                                 *)
C6_Witness ==
    /\ UploadedOk(1, versioned_key(req[1]))
    /\ UploadFailed(1, latest_key(req[1]))
    /\ metadata_key \in DOMAIN store

(* -------------------------------- C9 --------------------------------- *)

LowerBool(b) == IF b THEN "true" ELSE "false"

(* An upload metadata dict records notarized exactly for macos, as the     *)
(* flag's lower-case text.                                                 *)
MetadataNotarizedRight(m, r) ==
    /\ ("notarized" \in DOMAIN m) = (r.platform = "macos")
    /\ r.platform = "macos" => m["notarized"] = LowerBool(r.notarized)

(* A manifest entry records notarized exactly for macos, as the flag.      *)
EntryNotarizedRight(entry, r) ==
    /\ ("notarized" \in DOMAIN entry.members) = (r.platform = "macos")
    /\ r.platform = "macos" => entry.members["notarized"] = r.notarized

(* C9: the metadata dict of an invocation, the metadata of the objects its *)
(* two uploads stored, the downloads entry it prepared and the one it      *)
(* wrote all hold a notarized field if and only if platform is macos, with *)
(* the value of the notarized flag, whatever the signed flag is.           *)
C9_NotarizedIffMacos ==
    \A i \in Procs :
        /\ metadata[i] # EmptyDict => MetadataNotarizedRight(metadata[i], req[i])
        /\ \A k \in {versioned_key(req[i]), latest_key(req[i])} :
              UploadedOk(i, k) => MetadataNotarizedRight(store[k].Metadata, req[i])
        /\ pc[i] \in {"PutManifest", "Done"} =>
              EntryNotarizedRight(Downloads(manifest[i])[platform_arch(req[i])], req[i])
        /\ (PutOk(i) /\ lastPut.by = i) =>
              EntryNotarizedRight(Downloads(StoredDoc)[platform_arch(req[i])], req[i])

(* A macos build notarized but not signed, published to the end. *)
C9_Witness ==
    /\ pc[1] = "Done" /\ PutOk(1)
    /\ req[1].platform = "macos" /\ ~req[1].signed /\ req[1].notarized
    /\ Downloads(StoredDoc)[platform_arch(req[1])].members["notarized"] = TRUE
    /\ store[latest_key(req[1])].Metadata["notarized"] = "true"

(* -------------------------------- C10 -------------------------------- *)

OwnKeys(i) == {versioned_key(req[i]), latest_key(req[i]), metadata_key}

Writes(i, k) == CallsOn(i, "upload_file", k) \cup CallsOn(i, "put_object", k)
WroteOk(i, k) == \E n \in Writes(i, k) : calls[i][n].ok

(* C10: the object-store calls of an invocation are at most one            *)
(* upload_file to its versioned key, at most one to its latest key, at     *)
(* most one get_object and at most one put_object of metadata/latest.json, *)
(* and nothing else; every object under another key, and every own key it  *)
(* has not written, is as the invocation found it.                         *)
C10_TouchesOnlyOwnKeys ==
    \A i \in Procs :
        /\ \A n \in 1..Len(calls[i]) :
              \/ calls[i][n].op = "upload_file" /\
                 calls[i][n].key \in {versioned_key(req[i]), latest_key(req[i])}
              \/ calls[i][n].op \in {"get_object", "put_object"} /\
                 calls[i][n].key = metadata_key
        /\ Cardinality(CallsOn(i, "upload_file", versioned_key(req[i]))) <= 1
        /\ Cardinality(CallsOn(i, "upload_file", latest_key(req[i]))) <= 1
        /\ Cardinality(CallsOn(i, "get_object", metadata_key)) <= 1
        /\ Cardinality(CallsOn(i, "put_object", metadata_key)) <= 1
        /\ Started(i) =>
              \A k \in DOMAIN store \cup DOMAIN found[i] :
                  (k \notin OwnKeys(i) \/ ~WroteOk(i, k)) => SameAt(k, found[i])

(* A run that made all four calls next to objects of another release.      *)
C10_Witness ==
    /\ pc[1] = "Done" /\ PutOk(1) /\ Len(calls[1]) = 4
    /\ \E k \in DOMAIN found[1] : k \notin OwnKeys(1) /\ k \in DOMAIN store

(* -------------------------------- C3 --------------------------------- *)

(* C3: the manifest an invocation for identifier P prepares from a parsed  *)
(* prior manifest, and then writes, holds every downloads entry of the     *)
(* prior manifest under an identifier other than P unchanged, and P's      *)
(* entry replaced by this run's; so, in a sequence of invocations that do  *)
(* not overlap and meet no fetch error, the manifest in the bucket has an  *)
(* entry for every identifier whose manifest write succeeded.              *)
C3_MergeIsAdditive ==
    /\ \A i \in Procs :
          (pc[i] \in {"PutManifest", "Done"} /\ prior[i].outcome = "Ok") =>
              LET P == platform_arch(req[i])
                  old == Downloads(prior[i].base)
                  new == Downloads(manifest[i])
              IN  /\ DOMAIN new = DOMAIN old \cup {P}
                  /\ \A Q \in DOMAIN old \ {P} : new[Q] = old[Q]
                  /\ new[P] = EntryOf(i)
    /\ \A i \in Procs :
          (pc[i] = "Done" /\ PutOk(i) /\ lastPut.by = i) => StoredDoc = manifest[i]
    /\ (published # {} /\ ~fetchErr /\ ~overlapped) =>
          /\ StoredManifestOk
          /\ published \subseteq DOMAIN Downloads(StoredDoc)

(* The second of two invocations wrote its entry next to the one the first *)
(* had published under another identifier.                                 *)
C3_Witness ==
    /\ runs = 2 /\ pc[1] = "Done" /\ PutOk(1) /\ prior[1].outcome = "Ok"
    /\ Cardinality(published) = 2
    /\ published \subseteq DOMAIN Downloads(StoredDoc)
    /\ \E Q \in DOMAIN Downloads(prior[1].base) :
          /\ Q # platform_arch(req[1])
          /\ Downloads(StoredDoc)[Q] = Downloads(prior[1].base)[Q]

(* -------------------------------- C8 --------------------------------- *)

(* C8: the manifest an invocation prepares carries its own version and the *)
(* release date it read from the clock, whatever the prior manifest held;  *)
(* after any sequence of invocations the manifest's top-level version is   *)
(* the version argument of the last invocation whose manifest write        *)
(* succeeded.                                                              *)
C8_LastWriterSetsVersion ==
    /\ \A i \in Procs :
          pc[i] \in {"PutManifest", "Done"} =>
              /\ manifest[i].members["version"] = req[i].version
              /\ manifest[i].members["release_date"] = IsoZ(now)
    /\ lastPut.by # 0 =>
          /\ StoredManifestOk
          /\ StoredDoc.members["version"] = lastPut.req.version

(* The second invocation of a sequence published 1.0.0 over a manifest at  *)
(* version 1.1.0 that keeps an entry of another identifier.                *)
C8_Witness ==
    /\ runs = 2 /\ pc[1] = "Done" /\ PutOk(1) /\ prior[1].outcome = "Ok"
    /\ prior[1].base.members["version"] = "1.1.0"
    /\ req[1].version = "1.0.0"
    /\ StoredDoc.members["version"] = "1.0.0"
    /\ \E Q \in DOMAIN Downloads(StoredDoc) : Q # platform_arch(req[1])

(* -------------------------------- C7 --------------------------------- *)

Other(i) == CHOOSE j \in Procs : j # i

(* Both invocations ran to the end with every remote call succeeding (a    *)
(* fetch that finds no manifest included) and wrote the manifest, for      *)
(* different identifiers.                                                  *)
BothWrote ==
    /\ \A i \in Procs : pc[i] = "Done" /\ PutOk(i) /\ prior[i].outcome # "Error"
    /\ platform_arch(req[1]) # platform_arch(req[2])

(* The fetch-to-write windows overlapped: the first writer wrote between   *)
(* the last writer's fetch and the last writer's write.                    *)
Overlap == stale[lastPut.by]

HasEntry(downloads, P, entry) == P \in DOMAIN downloads /\ downloads[P] = entry

(* The downloads map of the manifest in the bucket s, empty if it had none.*)
DownloadsIn(s) ==
    IF metadata_key \in DOMAIN s /\ ~JsonLoads(s[metadata_key].Body).raised
       /\ ManifestShaped(JsonLoads(s[metadata_key].Body).value)
    THEN Downloads(JsonLoads(s[metadata_key].Body).value)
    ELSE EmptyDict

(* C7: for two invocations publishing different identifiers that both      *)
(* succeed in every remote call, the final manifest lacks the first        *)
(* writer's downloads entry if their fetch-to-write windows overlap, with  *)
(* top-level version and release date those of the last writer, and holds  *)
(* both entries if the windows do not overlap.                             *)
C7_OverlapLosesAnEntry ==
    BothWrote =>
        LET last == lastPut.by
            first == Other(lastPut.by)
            final == Downloads(StoredDoc)
        IN  /\ HasEntry(final, platform_arch(req[last]), EntryOf(last))
            /\ Overlap =>
                  /\ ~HasEntry(final, platform_arch(req[first]), EntryOf(first))
                  /\ StoredDoc.members["version"] = req[last].version
                  /\ StoredDoc.members["release_date"] =
                        manifest[last].members["release_date"]
            /\ ~Overlap => HasEntry(final, platform_arch(req[first]), EntryOf(first))

(* C7 as amended: the final manifest is the manifest the last writer       *)
(* fetched plus the last writer's entry, version and release date. If the  *)
(* windows overlap the first writer's write is lost: the final manifest    *)
(* holds the first writer's entry only if the manifest in the bucket       *)
(* before both writes already held an equal entry under that identifier.   *)
(* If they do not overlap it holds both entries.                           *)
C7_OverlapLosesTheWrite ==
    BothWrote =>
        LET last == lastPut.by
            first == Other(lastPut.by)
            final == Downloads(StoredDoc)
        IN  /\ final = Assign(Downloads(prior[last].base), platform_arch(req[last]),
                              EntryOf(last))
            /\ StoredDoc.members["version"] = req[last].version
            /\ StoredDoc.members["release_date"] = manifest[last].members["release_date"]
            /\ Overlap =>
                  (HasEntry(final, platform_arch(req[first]), EntryOf(first)) <=>
                   HasEntry(DownloadsIn(found[last]), platform_arch(req[first]),
                            EntryOf(first)))
            /\ ~Overlap => HasEntry(final, platform_arch(req[first]), EntryOf(first))

(* The lost update: both wrote, the windows overlapped, and the final      *)
(* manifest has the last writer's entry and none for the first writer.     *)
C7_Witness ==
    /\ BothWrote /\ Overlap
    /\ platform_arch(req[lastPut.by]) \in DOMAIN Downloads(StoredDoc)
    /\ platform_arch(req[Other(lastPut.by)]) \notin DOMAIN Downloads(StoredDoc)

(* -------------------------------- C11 -------------------------------- *)

(* Every remote call of a call record succeeded; a manifest fetch that     *)
(* finds no object is no failure.                                          *)
AllCallsOk(cs, outcome) ==
    /\ outcome \notin {"none", "Error"}
    /\ \A n \in 1..Len(cs) :
          cs[n].ok \/ (cs[n].op = "get_object" /\ outcome = "NoSuchKey")

(* A stored object without its timestamp: the build-date of an artifact's  *)
(* metadata, the release_date of a manifest.                               *)
Untimed(obj) ==
    IF "build-date" \in DOMAIN obj.Metadata
    THEN [obj EXCEPT !.Metadata = Assign(obj.Metadata, "build-date", "")]
    ELSE IF /\ ~JsonLoads(obj.Body).raised
            /\ IsDict(JsonLoads(obj.Body).value)
            /\ "release_date" \in DOMAIN JsonLoads(obj.Body).value.members
         THEN [obj EXCEPT !.Body = JsonDumps(JObj(Assign(
                   JsonLoads(obj.Body).value.members, "release_date", "")))]
         ELSE obj

WithoutTimestamps(s) == [k \in DOMAIN s |-> Untimed(s[k])]

(* The invocation in slot i repeats the one before it in the slot: same    *)
(* arguments, same file, and in both every remote call succeeded.          *)
Rerun(i) ==
    /\ pc[i] \in Ended
    /\ prev[i].req = req[i] /\ prev[i].disk = disk[i]
    /\ AllCallsOk(prev[i].calls, prev[i].outcome)
    /\ AllCallsOk(calls[i], prior[i].outcome)

(* C11: when an invocation repeats the one that ran right before it (same  *)
(* file bytes, version, platform, architecture and flags, every remote     *)
(* call of both succeeding), the bucket after it equals the bucket before  *)
(* it, timestamps aside: the same objects under every key, the same        *)
(* manifest version and downloads map.                                     *)
C11_RerunLeavesStoreAlike ==
    \A i \in Procs :
        Rerun(i) => WithoutTimestamps(store) = WithoutTimestamps(found[i])

(* A repeated publish that ran to the end at a later clock reading: the    *)
(* bucket differs from the one before it, in its timestamps only.          *)
C11_Witness ==
    /\ Rerun(1) /\ pc[1] = "Done" /\ PutOk(1)
    /\ store # found[1]
    /\ store[latest_key(req[1])].Metadata["build-date"] #
          found[1][latest_key(req[1])].Metadata["build-date"]

(* -------------------------------- C12 -------------------------------- *)

EndsWith(s, e) == Len(s) >= Len(e) /\ SubSeq(s, Len(s) - Len(e) + 1, Len(s)) = e

(* The file name has extension e, in either case: it ends with e after a   *)
(* stem that is not empty.                                                 *)
HasExt(name, e) == Len(name) > Len(e) /\ EndsWith(lower(name), e)

(* The result the lookup is to give for a name, "" where the five-row      *)
(* table and its fallback say nothing (a name ending in .tar.gz).          *)
TypeFor(name) ==
    IF HasExt(name, ".dmg") THEN "application/x-apple-diskimage"
    ELSE IF HasExt(name, ".exe") THEN "application/x-msdownload"
    ELSE IF HasExt(name, ".msi") THEN "application/x-msi"
    ELSE IF HasExt(name, ".zip") THEN "application/zip"
    ELSE IF HasExt(name, ".json") THEN "application/json"
    ELSE IF HasExt(name, ".tar.gz") THEN ""
    ELSE "application/octet-stream"

(* Invocation i has passed line 119, where the content type is resolved.   *)
Resolved(i) == Started(i) /\ client[i]

(* C12: get_content_type returns the table's type for a file name with     *)
(* extension .dmg, .exe, .msi, .zip or .json in either case, and           *)
(* application/octet-stream for a name with an extension that is not in    *)
(* the table or with none; the result depends on the name alone, and it is *)
(* the content type of the objects the invocation uploads.                 *)
C12_ContentTypeByExtension ==
    \A i \in Procs :
        (Resolved(i) /\ TypeFor(filename(i)) # "") =>
            /\ get_content_type(filename(i)) = TypeFor(filename(i))
            /\ \A k \in {versioned_key(req[i]), latest_key(req[i])} :
                  UploadedOk(i, k) => store[k].ContentType = TypeFor(filename(i))

(* An upper-case .DMG in a directory, uploaded as a disk image. *)
C12_Witness ==
    /\ req[1].file_path = "dist/Ami.DMG"
    /\ BothUploaded(1)
    /\ store[latest_key(req[1])].ContentType = "application/x-apple-diskimage"

(* -------------------------------- C15 -------------------------------- *)

(* C15: for a file name ending in .tar.gz, get_content_type returns        *)
(* application/gzip, and that is the content type of the objects the       *)
(* invocation uploads.                                                     *)
C15_TarGzIsGzip ==
    \A i \in Procs :
        (Resolved(i) /\ HasExt(filename(i), ".tar.gz")) =>
            /\ get_content_type(filename(i)) = "application/gzip"
            /\ \A k \in {versioned_key(req[i]), latest_key(req[i])} :
                  UploadedOk(i, k) => store[k].ContentType = "application/gzip"

(* -------------------------------- C13 -------------------------------- *)

(* The remote calls of upload_to_r2 in the order of the code. *)
StepOrder(i) ==
    << [op |-> "upload_file", key |-> versioned_key(req[i])],
       [op |-> "upload_file", key |-> latest_key(req[i])],
       [op |-> "get_object", key |-> metadata_key],
       [op |-> "put_object", key |-> metadata_key] >>

(* C13: the remote calls an invocation has made are a prefix of versioned  *)
(* upload, latest upload, manifest fetch, manifest write, each made after  *)
(* the one before it returned and the uploads only after the upload before *)
(* them succeeded; so an invocation that has tried to write the manifest   *)
(* has uploaded both artifacts, and when it has written its entry, objects *)
(* are stored at its versioned key and at its latest key, which is the key *)
(* the entry's url names.                                                  *)
C13_StepsInOrder ==
    \A i \in Procs :
        LET order == StepOrder(i)
            done == calls[i]
        IN  /\ Len(done) <= 4
            /\ \A n \in 1..Len(done) :
                  /\ done[n].op = order[n].op
                  /\ done[n].key = order[n].key
                  /\ (n \in {2, 3}) => done[n - 1].ok
            /\ Len(done) >= 3 => done[1].ok /\ done[2].ok
            /\ (Len(done) = 4 /\ done[4].ok) =>
                  /\ order[1].key \in DOMAIN store
                  /\ order[2].key \in DOMAIN store
                  /\ Downloads(manifest[i])[platform_arch(req[i])].members["url"] =
                        environ[i].R2_ENDPOINT \o "/" \o environ[i].R2_BUCKET \o "/" \o
                        order[2].key

(* One invocation has made its four calls and written its entry while the  *)
(* other is between its two uploads.                                       *)
C13_Witness ==
    /\ Len(calls[1]) = 4 /\ PutOk(1)
    /\ pc[2] = "UploadLatest"
    /\ platform_arch(req[1]) \in DOMAIN Downloads(StoredDoc)

(* -------------------------------- C14 -------------------------------- *)

(* An invocation that returned success with its four remote calls          *)
(* succeeding.                                                             *)
Succeeded(cs, outcome, res) == res = "True" /\ Len(cs) = 4 /\ AllCallsOk(cs, outcome)

(* The invocation in slot i has published a new version of what the one    *)
(* before it published: same identifier, same file extension, another      *)
(* version, both successful.                                               *)
NewVersionAfter(i) ==
    /\ pc[i] = "Done"
    /\ Succeeded(calls[i], prior[i].outcome, result[i])
    /\ Succeeded(prev[i].calls, prev[i].outcome, prev[i].result)
    /\ prev[i].req.version # req[i].version
    /\ platform_arch(prev[i].req) = platform_arch(req[i])
    /\ PathSuffix(prev[i].req.file_path) = PathSuffix(req[i].file_path)

StartsWith(s, p) == Len(s) >= Len(p) /\ SubSeq(s, 1, Len(p)) = p

(* C14: after two successful invocations in sequence for one identifier    *)
(* and file extension with versions v1 then v2, the latest key, which held *)
(* the first one's artifact, holds the second one's bytes and metadata,    *)
(* and the object at the v1 versioned key is the first one's artifact, as  *)
(* it was before the second ran; and no invocation writes a key under      *)
(* releases/v<another version>/.                                           *)
C14_LatestMovesVersionedStays ==
    \A i \in Procs :
        /\ NewVersionAfter(i) =>
              LET lk == latest_key(req[i])
                  vk1 == versioned_key(prev[i].req)
              IN  /\ latest_key(prev[i].req) = lk
                  /\ found[i][lk].Body.bytes = prev[i].disk.bytes
                  /\ found[i][lk].Metadata["version"] = prev[i].req.version
                  /\ store[lk].Body.bytes = disk[i].bytes
                  /\ store[lk].Metadata = metadata[i]
                  /\ store[lk].Metadata["version"] = req[i].version
                  /\ vk1 \in DOMAIN store
                  /\ store[vk1] = found[i][vk1]
                  /\ store[vk1].Body.bytes = prev[i].disk.bytes
                  /\ store[vk1].Metadata["version"] = prev[i].req.version
        /\ \A n \in 1..Len(calls[i]) : \A v \in Versions \ {req[i].version} :
              ~StartsWith(calls[i][n].key, "releases/v" \o v \o "/")

(* 1.1.0 published after 1.0.0 (or the reverse) with other bytes: the      *)
(* latest key and the older versioned key now hold different artifacts.    *)
C14_Witness ==
    /\ NewVersionAfter(1)
    /\ prev[1].disk # disk[1]
    /\ store[latest_key(req[1])].Body # store[versioned_key(prev[1].req)].Body
    /\ store[versioned_key(req[1])].Body = store[latest_key(req[1])].Body

(* -------------------------------- C16 -------------------------------- *)

(* The manifest in the bucket has an entry for the identifier of request r *)
(* whose url names r's latest key and whose sha256 and size are those of   *)
(* the object stored there.                                                *)
ManifestAgrees(r, endpoint, bucket) ==
    /\ StoredManifestOk
    /\ platform_arch(r) \in DOMAIN Downloads(StoredDoc)
    /\ latest_key(r) \in DOMAIN store
    /\ LET entry == Downloads(StoredDoc)[platform_arch(r)].members
           object == store[latest_key(r)]
       IN  /\ entry["url"] = endpoint \o "/" \o bucket \o "/" \o latest_key(r)
           /\ entry["sha256"] = calculate_sha256(object.Body.bytes)
           /\ entry["size"] = Len(object.Body.bytes)

(* C16: in a sequence of invocations, when one has returned success, the   *)
(* manifest's entry for its identifier has the sha256 and size of the      *)
(* object at its latest key, and the manifest's version is its version.    *)
C16_SuccessMeansManifestAgrees ==
    \A i \in Procs :
        (pc[i] = "Done" /\ result[i] = "True") =>
            /\ ManifestAgrees(req[i], environ[i].R2_ENDPOINT, environ[i].R2_BUCKET)
            /\ StoredDoc.members["version"] = req[i].version

(* C16 as amended: when an invocation has returned success and its         *)
(* manifest write succeeded, then, until the next invocation starts, the   *)
(* manifest's entry for its identifier has the sha256 and size of the      *)
(* object at its latest key, and the manifest's version is its version.    *)
C16_WrittenManifestAgrees ==
    \A i \in Procs :
        (pc[i] = "Done" /\ result[i] = "True" /\ PutOk(i)) =>
            /\ ManifestAgrees(req[i], environ[i].R2_ENDPOINT, environ[i].R2_BUCKET)
            /\ StoredDoc.members["version"] = req[i].version

(* A second publish of an identifier with other bytes, written to the end: *)
(* the entry was replaced together with the object.                        *)
C16_Witness ==
    /\ pc[1] = "Done" /\ PutOk(1)
    /\ Succeeded(prev[1].calls, prev[1].outcome, prev[1].result)
    /\ platform_arch(prev[1].req) = platform_arch(req[1])
    /\ prev[1].disk # disk[1]
    /\ Downloads(StoredDoc)[platform_arch(req[1])].members["sha256"] =
          calculate_sha256(store[latest_key(req[1])].Body.bytes)

====
